---- MODULE Spec2Model ----
(***************************************************************************)
(* Model of AI_marketing.py: the Streamlit chat handler that keeps the     *)
(* conversation in st.session_state.messages, and get_bot_response, the    *)
(* retrying client of the generative-language API.                         *)
(*                                                                         *)
(* Python values are modelled as follows.  A dict is a TLA+ record (the    *)
(* empty dict {} is the empty function <<>>), a list is a sequence, a      *)
(* string is a string and None is the string PyNone, which no datum of the *)
(* model equals.  An exception is a record [type, msg].                    *)
(***************************************************************************)
EXTENDS Integers, Sequences, FiniteSets, TLC

VARIABLES
    messages,       \* st.session_state.messages
    pc,             \* where the handler stands: "idle" (waiting for input),
                    \* "loop" (inside get_bot_response, at the while test),
                    \* "returned" / "raised" (get_bot_response has ended)
    chat_history,   \* the argument of get_bot_response
    payload,        \* the request payload built before the loop
    retries,        \* local variable of get_bot_response
    delay,          \* local variable of get_bot_response
    response,       \* what the last requests.post call produced
    posted,         \* the payloads given to requests.post by this invocation
    requests,       \* number of requests.post calls of this invocation
    status_retries, \* how many of them were answered by 429 or 5xx
    sleeps,         \* the time.sleep durations of this invocation, in order
    result,         \* how get_bot_response ended: a returned pair or an exception
    json_error_is_request_exception
                    \* the installed requests library: from 2.27 on
                    \* response.json() raises requests.exceptions.JSONDecodeError,
                    \* a RequestException; before, a plain ValueError

vars == <<messages, pc, chat_history, payload, retries, delay, response,
          posted, requests, status_retries, sleeps, result,
          json_error_is_request_exception>>

callvars == <<chat_history, payload, retries, delay, response, posted, requests,
              status_retries, sleeps, result>>

-----------------------------------------------------------------------------
(* Bounds of the model *)

MaxInputs == 2      \* user inputs handled in one session
MaxHist == 12       \* turns of a history given to get_bot_response
MaxSys == 2         \* system-role turns in such a history
MaxAttrs == 3       \* grounding attributions in one response
MaxLongInputs == 6  \* user inputs handled in one long session

Prompts == {"p1", "p2"}

-----------------------------------------------------------------------------
(* Python helpers *)

PyNone == "<None>"

\* d.get(k, default)
Get(d, k, default) == IF k \in DOMAIN d THEN d[k] ELSE default

\* truth value of a string or None
TruthyStr(s) == s # PyNone /\ s # ""

\* truth value of a dict (None is modelled by the empty dict: both are false)
TruthyDict(d) == DOMAIN d # {}

\* a slice taken from the wrong end: lst[:n]
LastSliceFromFront(lst, n) ==
    IF Len(lst) <= n THEN lst ELSE SubSeq(lst, 1, n)

\* lst[-n:]
LastSlice(lst, n) ==
    IF Len(lst) <= n THEN lst ELSE SubSeq(lst, Len(lst) - n + 1, Len(lst))

-----------------------------------------------------------------------------
(* Module-level constants of the program *)

SYSTEM_PROMPT == "You are an expert Digital Marketing Strategist."

Greeting == "Hello! I'm your AI Digital Marketing strategist."

max_history_length == 10

max_retries == 5

initial_delay == 1

ErrorPrefix == "Sorry, I encountered an error: "

-----------------------------------------------------------------------------
(* get_bot_response: construction of the payload *)

\* a window built without the filter on the role
NonSystemUnfiltered(history) == history

\* [msg for msg in chat_history if msg['role'] != 'system']
NonSystem(history) == SelectSeq(history, LAMBDA msg : msg.role # "system")

system_message == [role |-> "system", parts |-> <<[text |-> SYSTEM_PROMPT]>>]

\* final_payload_contents
BuildContents(history) ==
    <<system_message>> \o LastSlice(NonSystem(history), max_history_length)

\* a payload built without the tool declaration
BuildPayloadWithoutTools(history) == [contents |-> BuildContents(history)]

BuildPayload(history) ==
    [contents |-> BuildContents(history),
     tools |-> <<[google_search |-> <<>>]>>]

-----------------------------------------------------------------------------
(* get_bot_response: one pass through the body of the try statement.  Its *)
(* outcome is a returned pair, a request to retry, or a raised exception.  *)

Return(text, sources) == [kind |-> "return", text |-> text, sources |-> sources]

Raise(type, msg) == [kind |-> "raise", type |-> type, msg |-> msg]

Retry == [kind |-> "retry"]

NoResult == [kind |-> "none"]

\* response.ok of the requests library: no 4xx or 5xx status
Ok(resp) == ~(400 <= resp.status_code /\ resp.status_code < 600)

RetryableStatus(resp) == resp.status_code = 429 \/ resp.status_code >= 500

\* response.json() fails on a body that is not JSON
HasJson(resp) == "json" \in DOMAIN resp

JSONDecodeError == Raise("JSONDecodeError", "Expecting value: line 1 column 1 (char 0)")

IndexError == Raise("IndexError", "list index out of range")

InvalidStructure == Raise("Exception", "Invalid response structure from API.")

MaxRetriesReached ==
    Raise("Exception", "Max retries reached. Could not get a response from the API.")

\* a filter that forgets the title
KeepAttributionUriOnly(attr) ==
    LET web == Get(attr, "web", <<>>)
    IN  /\ TruthyDict(web)
        /\ TruthyStr(Get(web, "uri", PyNone))

\* one groundingAttributions entry passes the filter of the comprehension
KeepAttribution(attr) ==
    LET web == Get(attr, "web", <<>>)
    IN  /\ TruthyDict(web)
        /\ TruthyStr(Get(web, "uri", PyNone))
        /\ TruthyStr(Get(web, "title", PyNone))

SourceOf(attr) ==
    [uri |-> Get(Get(attr, "web", <<>>), "uri", PyNone),
     title |-> Get(Get(attr, "web", <<>>), "title", PyNone)]

RECURSIVE Comprehension(_)
Comprehension(attrs) ==
    IF attrs = <<>> THEN <<>>
    ELSE (IF KeepAttribution(Head(attrs)) THEN <<SourceOf(Head(attrs))>> ELSE <<>>)
         \o Comprehension(Tail(attrs))

\* sources, as extracted from the candidate
ExtractSources(candidate) ==
    LET grounding_metadata == Get(candidate, "groundingMetadata", <<>>)
    IN  IF TruthyDict(grounding_metadata)
           /\ "groundingAttributions" \in DOMAIN grounding_metadata
        THEN Comprehension(grounding_metadata.groundingAttributions)
        ELSE <<>>

\* a check of the answer that also demands grounding metadata
AnswerOutcomeNeedsGrounding(text, candidate) ==
    IF ~TruthyStr(text) \/ ~TruthyDict(Get(candidate, "groundingMetadata", <<>>))
    THEN InvalidStructure
    ELSE Return(text, ExtractSources(candidate))

\* if not text: raise ...; otherwise return text, sources
AnswerOutcome(text, candidate) ==
    IF ~TruthyStr(text) THEN InvalidStructure
    ELSE Return(text, ExtractSources(candidate))

\* if response.ok: ...
OkBranch(resp) ==
    IF ~HasJson(resp) THEN JSONDecodeError
    ELSE LET candidates == Get(resp.json, "candidates", << <<>> >>)
         IN  IF Len(candidates) = 0 THEN IndexError
             ELSE LET candidate == candidates[1]
                      parts == Get(Get(candidate, "content", <<>>), "parts", << <<>> >>)
                  IN  IF Len(parts) = 0 THEN IndexError
                      ELSE AnswerOutcome(Get(parts[1], "text", ""), candidate)

HttpErrorMessage(resp) == "HTTP error! status: " \o ToString(resp.status_code)

\* else: ... (a status that is neither ok nor retryable)
ErrorBranch(resp) ==
    IF ~HasJson(resp) THEN JSONDecodeError
    ELSE Raise("Exception",
               Get(Get(resp.json, "error", <<>>), "message", HttpErrorMessage(resp)))

\* the body of the try statement, given what requests.post produced
TryBody(resp) ==
    IF "exc" \in DOMAIN resp THEN Raise(resp.exc, "connection failed")
    ELSE IF Ok(resp) THEN OkBranch(resp)
    ELSE IF RetryableStatus(resp) THEN Retry
    ELSE ErrorBranch(resp)

\* the exception is caught by: except requests.exceptions.RequestException
IsRequestException(e) ==
    \/ e.type \in {"ConnectionError", "Timeout"}
    \/ e.type = "JSONDecodeError" /\ json_error_is_request_exception

PrefixedError(msg) == ErrorPrefix \o msg

\* a loop test that is off by one
LoopGuardOffByOne(r) == r <= max_retries

\* while retries < max_retries
LoopGuard(r) == r < max_retries

\* a last-attempt test that is off by one
LastAttemptOffByOne(r) == r >= max_retries

\* if retries >= max_retries - 1
LastAttempt(r) == r >= max_retries - 1

\* a linear backoff
NextDelayLinear(d) == d + 1

\* delay *= 2
NextDelay(d) == d * 2

-----------------------------------------------------------------------------
(* What the transport may answer.  The JSON values have the types of the  *)
(* documented response shape; any field may be absent, and a list or a    *)
(* string may be empty.  The body of a 429 or 5xx answer is never read.   *)

CandidateWith(text) == [content |-> [parts |-> <<[text |-> text]>>]]

GroundedCandidate(text, grounding_metadata) ==
    [content |-> [parts |-> <<[text |-> text]>>],
     groundingMetadata |-> grounding_metadata]

Attribution(uri, title) == [web |-> [uri |-> uri, title |-> title]]

\* JSON bodies of a 2xx answer
OkBodies ==
    { <<>>,
      [candidates |-> <<>>],
      [candidates |-> << <<>> >>],
      [candidates |-> <<[content |-> [parts |-> <<>>]]>>],
      [candidates |-> <<CandidateWith("")>>],
      [candidates |-> <<CandidateWith("t1")>>],
      [candidates |-> <<GroundedCandidate("t1", <<>>)>>],
      [candidates |-> <<GroundedCandidate("t1", [webSearchQueries |-> <<"q">>])>>],
      [candidates |-> <<GroundedCandidate("t2",
          [groundingAttributions |->
              <<Attribution("u1", "T1"), [web |-> [uri |-> "u2"]],
                Attribution("u2", "T2")>>])>>] }

\* JSON bodies of a 4xx answer
ErrorBodies ==
    { [error |-> [message |-> "bad key"]],
      [error |-> [status |-> "INVALID_ARGUMENT"]],
      <<>> }

NetworkFailures == {[exc |-> "ConnectionError"], [exc |-> "Timeout"]}

Responses ==
    NetworkFailures
    \cup {[status_code |-> s] : s \in {200, 400, 429, 500, 503}}
    \cup {[status_code |-> 200, json |-> b] : b \in OkBodies}
    \cup {[status_code |-> s, json |-> b] : s \in {400, 404}, b \in ErrorBodies}

\* groundingAttributions entries of every shape the filter distinguishes
WebShapes ==
    { <<>>, [uri |-> "u1"], [title |-> "T1"],
      [uri |-> "u1", title |-> "T1"], [uri |-> "u2", title |-> "T1"],
      [uri |-> "", title |-> "T1"], [uri |-> PyNone, title |-> "T1"],
      [uri |-> "u1", title |-> ""] }

AttributionShapes == { <<>> } \cup {[web |-> w] : w \in WebShapes}

AttributionLists ==
    UNION {[1..n -> AttributionShapes] : n \in 0..MaxAttrs}

GroundedResponses ==
    {[status_code |-> 200,
      json |-> [candidates |->
                  <<GroundedCandidate("t1", [groundingAttributions |-> attrs])>>]] :
        attrs \in AttributionLists}

-----------------------------------------------------------------------------
(* The state machine *)

NoResponse == <<>>

Init ==
    /\ messages = <<[role |-> "system", content |-> SYSTEM_PROMPT],
                    [role |-> "assistant", content |-> Greeting]>>
    /\ pc = "idle"
    /\ chat_history = <<>>
    /\ payload = <<>>
    /\ retries = 0
    /\ delay = initial_delay
    /\ response = NoResponse
    /\ posted = <<>>
    /\ requests = 0
    /\ status_retries = 0
    /\ sleeps = <<>>
    /\ result = NoResult
    /\ json_error_is_request_exception \in BOOLEAN

\* get_bot_response up to the while statement
StartCall(history) ==
    /\ chat_history' = history
    /\ payload' = BuildPayload(history)
    /\ retries' = 0
    /\ delay' = initial_delay
    /\ response' = NoResponse
    /\ posted' = <<>>
    /\ requests' = 0
    /\ status_retries' = 0
    /\ sleeps' = <<>>
    /\ result' = NoResult
    /\ pc' = "loop"

\* st.session_state.messages.append({"role": "user", "content": prompt})
MessagesAfterInput(msgs, prompt) ==
    Append(msgs, [role |-> "user", content |-> prompt])

\* a history taken without the turn just appended
ApiHistoryWithoutLatest(msgs) ==
    [i \in 1..(Len(msgs) - 1) |->
        [role |-> msgs[i].role, parts |-> <<[text |-> msgs[i].content]>>]]

\* api_history
ApiHistory(msgs) ==
    [i \in 1..Len(msgs) |->
        [role |-> msgs[i].role, parts |-> <<[text |-> msgs[i].content]>>]]

\* a handler that keeps only the latest turns
MessagesAfterReturnTrimmed(msgs, bot_response, sources) ==
    Append(Tail(msgs), [role |-> "assistant", content |-> bot_response,
                        sources |-> sources])

\* the append after get_bot_response has returned
MessagesAfterReturn(msgs, bot_response, sources) ==
    Append(msgs, [role |-> "assistant", content |-> bot_response,
                  sources |-> sources])

\* an except clause that only displays the error
MessagesAfterErrorNotStored(msgs, e) == msgs

\* the append of the except clause of the handler
MessagesAfterError(msgs, e) ==
    Append(msgs, [role |-> "assistant", content |-> PrefixedError(e.msg),
                  sources |-> <<>>])

\* if prompt := st.chat_input(...): up to the call of get_bot_response
ReceiveInput(prompt) ==
    /\ pc = "idle"
    /\ messages' = MessagesAfterInput(messages, prompt)
    /\ StartCall(ApiHistory(messages'))
    /\ UNCHANGED json_error_is_request_exception

\* an input of a session of at most MaxInputs inputs
HandleInput(prompt) ==
    /\ Len(messages) < 2 + 2 * MaxInputs
    /\ ReceiveInput(prompt)

\* a backoff that doubles the delay before it sleeps
SleepAndRetryDoublesFirst ==
    /\ sleeps' = Append(sleeps, NextDelay(delay))
    /\ delay' = NextDelay(delay)
    /\ retries' = retries + 1
    /\ pc' = "loop"
    /\ UNCHANGED result

\* time.sleep(delay); delay *= 2; retries += 1
SleepAndRetry ==
    /\ sleeps' = Append(sleeps, delay)
    /\ delay' = NextDelay(delay)
    /\ retries' = retries + 1
    /\ pc' = "loop"
    /\ UNCHANGED result

\* one iteration of the while loop, requests.post producing resp
Attempt(resp) ==
    /\ pc = "loop"
    /\ LoopGuard(retries)
    /\ posted' = Append(posted, payload)
    /\ response' = resp
    /\ requests' = requests + 1
    /\ LET out == TryBody(resp)
       IN  CASE out.kind = "return" ->
                  /\ pc' = "returned"
                  /\ result' = out
                  /\ UNCHANGED <<retries, delay, sleeps, status_retries>>
             [] out.kind = "retry" ->
                  /\ SleepAndRetry
                  /\ status_retries' = status_retries + 1
             [] out.kind = "raise" /\ IsRequestException(out) ->
                  /\ IF LastAttempt(retries)
                     THEN /\ pc' = "raised"
                          /\ result' = out
                          /\ UNCHANGED <<retries, delay, sleeps>>
                     ELSE SleepAndRetry
                  /\ UNCHANGED status_retries
             [] out.kind = "raise" /\ ~IsRequestException(out) ->
                  /\ pc' = "returned"
                  /\ result' = Return(PrefixedError(out.msg), <<>>)
                  /\ UNCHANGED <<retries, delay, sleeps, status_retries>>
    /\ UNCHANGED <<messages, chat_history, payload, json_error_is_request_exception>>

\* a loop exit that starts the retries over instead of raising
ExhaustedStartsOver ==
    /\ pc = "loop"
    /\ ~LoopGuard(retries)
    /\ retries' = 0
    /\ delay' = initial_delay
    /\ requests' = 0
    /\ status_retries' = 0
    /\ sleeps' = <<>>
    /\ posted' = <<>>
    /\ UNCHANGED <<messages, pc, chat_history, payload, response, result,
                   json_error_is_request_exception>>

\* the loop condition fails: raise Exception("Max retries reached. ...")
Exhausted ==
    /\ pc = "loop"
    /\ ~LoopGuard(retries)
    /\ pc' = "raised"
    /\ result' = MaxRetriesReached
    /\ UNCHANGED <<messages, chat_history, payload, retries, delay, response,
                   posted, requests, status_retries, sleeps,
                   json_error_is_request_exception>>

\* get_bot_response returned: the handler stores the assistant turn
HandlerReturn ==
    /\ pc = "returned"
    /\ messages' = MessagesAfterReturn(messages, result.text, result.sources)
    /\ pc' = "idle"
    /\ UNCHANGED <<callvars, json_error_is_request_exception>>

\* get_bot_response raised: except Exception as e
HandlerExcept ==
    /\ pc = "raised"
    /\ messages' = MessagesAfterError(messages, result)
    /\ pc' = "idle"
    /\ UNCHANGED <<callvars, json_error_is_request_exception>>

Next ==
    \/ \E prompt \in Prompts : HandleInput(prompt)
    \/ \E resp \in Responses : Attempt(resp)
    \/ Exhausted
    \/ HandlerReturn
    \/ HandlerExcept

Spec == Init /\ [][Next]_vars

-----------------------------------------------------------------------------
(* A long session: more inputs, each answered at the first attempt, by an *)
(* answer or by a definitive error.                                       *)

QuickResponses ==
    { [status_code |-> 200, json |-> [candidates |-> <<CandidateWith("t1")>>]],
      [status_code |-> 400, json |-> [error |-> [message |-> "bad key"]]] }

\* an input of a session of at most MaxLongInputs inputs
LongInput(prompt) ==
    /\ Len(messages) < 2 + 2 * MaxLongInputs
    /\ ReceiveInput(prompt)

LongNext ==
    \/ \E prompt \in Prompts : LongInput(prompt)
    \/ \E resp \in QuickResponses : Attempt(resp)
    \/ HandlerReturn

SpecLong == Init /\ [][LongNext]_vars

-----------------------------------------------------------------------------
(* The first invocation of get_bot_response of a session, with fairness.  *)
(* The handler runs synchronously: a call of requests.post or time.sleep  *)
(* that returns is followed by the next statement, so an iteration of the *)
(* loop that can run does run, and so does the raise after the loop.      *)

FirstInput(prompt) ==
    /\ Len(messages) = 2
    /\ HandleInput(prompt)

CallNext ==
    \/ \E prompt \in Prompts : FirstInput(prompt)
    \/ \E resp \in Responses : Attempt(resp)
    \/ Exhausted
    \/ HandlerReturn
    \/ HandlerExcept

SpecCall ==
    /\ Init
    /\ [][CallNext]_vars
    /\ WF_vars(\E resp \in Responses : Attempt(resp))
    /\ WF_vars(Exhausted)

-----------------------------------------------------------------------------
(* get_bot_response on an arbitrary chat history: the history is drawn    *)
(* turn by turn, then the function is entered and builds its payload.     *)

Roles == {"system", "user", "assistant"}

SystemTurns(history) == {i \in 1..Len(history) : history[i].role = "system"}

\* one more turn of the chat_history argument; its text is its position
AddTurn(role) ==
    /\ pc = "idle"
    /\ Len(chat_history) < MaxHist
    /\ role = "system" => Cardinality(SystemTurns(chat_history)) < MaxSys
    /\ chat_history' =
           Append(chat_history,
                  [role |-> role,
                   parts |-> <<[text |-> "m" \o ToString(Len(chat_history) + 1)]>>])
    /\ UNCHANGED <<messages, pc, payload, retries, delay, response, posted, requests,
                   status_retries, sleeps, result,
                   json_error_is_request_exception>>

\* get_bot_response(chat_history), up to the while statement
Call ==
    /\ pc = "idle"
    /\ StartCall(chat_history)
    /\ UNCHANGED <<messages, json_error_is_request_exception>>

WindowNext ==
    \/ \E role \in Roles : AddTurn(role)
    \/ Call

SpecWindow == Init /\ [][WindowNext]_vars

-----------------------------------------------------------------------------
(* One call of get_bot_response answered by a 2xx response that carries   *)
(* grounding attributions of every shape.                                 *)

SourcesNext ==
    \/ \E prompt \in Prompts : HandleInput(prompt)
    \/ \E resp \in GroundedResponses : Attempt(resp)

SpecSources == Init /\ [][SourcesNext]_vars

-----------------------------------------------------------------------------
(* Vocabulary of the properties *)

\* the text at candidates[0].content.parts[0].text of a JSON body, "" when
\* that path does not exist
AnswerTextOf(body) ==
    IF /\ "candidates" \in DOMAIN body
       /\ Len(body.candidates) >= 1
       /\ "content" \in DOMAIN body.candidates[1]
       /\ "parts" \in DOMAIN body.candidates[1].content
       /\ Len(body.candidates[1].content.parts) >= 1
       /\ "text" \in DOMAIN body.candidates[1].content.parts[1]
    THEN body.candidates[1].content.parts[1].text
    ELSE ""

Is2xx(resp) == "status_code" \in DOMAIN resp /\ resp.status_code \in 200..299

\* a 2xx response with a JSON body whose answer text is not empty
IsAnswer(resp) ==
    /\ Is2xx(resp)
    /\ "json" \in DOMAIN resp
    /\ AnswerTextOf(resp.json) # ""

\* a 2xx response with a JSON body whose answer text is empty or absent
IsEmptyAnswer(resp) ==
    /\ Is2xx(resp)
    /\ "json" \in DOMAIN resp
    /\ AnswerTextOf(resp.json) = ""

\* a response whose status is not 2xx, 429 or 5xx and whose JSON body
\* carries the provider's message at error.message
IsDefinitiveError(resp) ==
    /\ "status_code" \in DOMAIN resp
    /\ resp.status_code \notin 200..299
    /\ resp.status_code # 429
    /\ resp.status_code \notin 500..599
    /\ "json" \in DOMAIN resp
    /\ "error" \in DOMAIN resp.json
    /\ "message" \in DOMAIN resp.json.error

\* 1, 2, 4, ... : the first k sleeps of the backoff schedule
Backoff(k) == [i \in 1..k |-> 2 ^ (i - 1)]

InCall == pc \in {"loop", "returned", "raised"}

-----------------------------------------------------------------------------
(* C1: when the first response has a status that is not 2xx, 429 or 5xx   *)
(* (for instance 400 with body {"error":{"message":"bad key"}}), the call *)
(* ends by raising an error that carries the provider's message, after    *)
(* exactly one request and without any sleep.                             *)
C1_ApiErrorRaised ==
    (InCall /\ requests = 1 /\ IsDefinitiveError(response)) =>
        /\ pc = "raised"
        /\ sleeps = <<>>
        /\ result.kind = "raise"
        /\ result.msg = response.json.error.message

(* C2: when the first response is a 2xx whose answer text is the empty    *)
(* string or whose structure is absent, the call ends by raising, after   *)
(* exactly one request and without any sleep.                             *)
C2_MalformedResponseRaised ==
    (InCall /\ requests = 1 /\ IsEmptyAnswer(response)) =>
        /\ pc = "raised"
        /\ sleeps = <<>>
        /\ result.kind = "raise"

(* C3: get_bot_response returns a value only when the attempt it ends on  *)
(* received a 2xx response with non-empty answer text, and the returned   *)
(* text is that text; every other execution ends by raising.              *)
C3_NoPlaceholderAnswer ==
    pc = "returned" =>
        /\ IsAnswer(response)
        /\ result.text = AnswerTextOf(response.json)

(* C4: as long as every attempt is answered by 429 or 5xx the call goes   *)
(* on, and it ends by raising the max-retries error after exactly 5       *)
(* requests, neither fewer nor more.                                      *)
C4_RetriesExhausted ==
    (InCall /\ status_retries = requests) =>
        /\ requests <= 5
        /\ pc # "returned"
        /\ pc = "loop" => retries = requests
        /\ pc = "raised" => requests = 5 /\ result = MaxRetriesReached

C4_Witness ==
    /\ pc = "raised"
    /\ status_retries = 5
    /\ requests = 5
    /\ result = MaxRetriesReached

(* C5: when exactly k responses of status 429 or 5xx, k in 0..4, are      *)
(* followed by a 2xx response with non-empty text, the call returns that  *)
(* text after k+1 requests, having slept k times: 1, 2, ..., 2^(k-1).     *)
C5_BackoffThenSuccess ==
    (InCall /\ requests >= 1 /\ IsAnswer(response)
            /\ status_retries = requests - 1) =>
        /\ pc = "returned"
        /\ result.text = AnswerTextOf(response.json)
        /\ status_retries \in 0..4
        /\ sleeps = Backoff(status_retries)

C5_Witness ==
    /\ pc = "returned"
    /\ IsAnswer(response)
    /\ status_retries = 4
    /\ requests = 5
    /\ sleeps = <<1, 2, 4, 8>>

(* C6: a network-level failure at an attempt reached after fewer than 4   *)
(* retryable failures makes the call sleep for the current delay, double  *)
(* it and retry; at the attempt reached after 4 retryable failures the    *)
(* network error is propagated to the caller, without a sleep.            *)
C6_NetworkFailure ==
    [][ (pc = "loop" /\ requests' = requests + 1 /\ response' \in NetworkFailures) =>
          /\ retries = requests
          /\ IF retries < 4
             THEN /\ sleeps' = Append(sleeps, delay)
                  /\ delay' = 2 * delay
                  /\ retries' = retries + 1
                  /\ pc' = "loop"
             ELSE /\ pc' = "raised"
                  /\ result' = Raise(response'.exc, "connection failed")
                  /\ sleeps' = sleeps ]_vars

C6_Witness ==
    /\ pc = "raised"
    /\ response \in NetworkFailures
    /\ result.type = response.exc
    /\ requests = 5
    /\ status_retries = 2
    /\ sleeps = <<1, 2, 4, 8>>

NonSystemTurns(history) == {i \in 1..Len(history) : history[i].role # "system"}

\* how many non-system turns of history stand at or before position i
RankAmongNonSystem(history, i) ==
    Cardinality({j \in NonSystemTurns(history) : j <= i})

(* C7: the request contents are the synthetic system turn followed by the *)
(* last 10 non-system turns of the history (all of them when there are at *)
(* most 10), in their original relative order.                            *)
C7_LastTenWindow ==
    pc = "loop" =>
        LET n == Cardinality(NonSystemTurns(chat_history))
            m == IF n > 10 THEN 10 ELSE n
            contents == payload.contents
        IN  /\ Len(contents) = m + 1
            /\ contents[1] = [role |-> "system", parts |-> <<[text |-> SYSTEM_PROMPT]>>]
            /\ \A i \in NonSystemTurns(chat_history) :
                 LET rank == RankAmongNonSystem(chat_history, i)
                 IN  rank > n - m => contents[rank - (n - m) + 1] = chat_history[i]

C7_Witness ==
    /\ pc = "loop"
    /\ Len(chat_history) = 12
    /\ Cardinality(NonSystemTurns(chat_history)) = 11
    /\ chat_history[5].role = "system"
    /\ Len(payload.contents) = 11
    /\ payload.contents[2] = chat_history[2]
    /\ payload.contents[11] = chat_history[12]

RawAttributions(resp) ==
    LET candidate == resp.json.candidates[1]
    IN  IF /\ "groundingMetadata" \in DOMAIN candidate
           /\ "groundingAttributions" \in DOMAIN candidate.groundingMetadata
        THEN candidate.groundingMetadata.groundingAttributions
        ELSE <<>>

Present(d, k) == k \in DOMAIN d /\ d[k] # "" /\ d[k] # PyNone

CompleteAttributions(raw) ==
    {i \in 1..Len(raw) :
        /\ "web" \in DOMAIN raw[i]
        /\ Present(raw[i].web, "uri")
        /\ Present(raw[i].web, "title")}

\* the k-th smallest element of a set of positions
NthOf(positions, k) ==
    CHOOSE i \in positions : Cardinality({j \in positions : j < i}) = k - 1

(* C8: the returned source list holds no entry with an empty or missing   *)
(* title or uri: it is the subsequence of the raw groundingAttributions   *)
(* whose web.uri and web.title are both non-empty, in the original order. *)
C8_SourcesFiltered ==
    (pc = "returned" /\ IsAnswer(response)) =>
        LET raw == RawAttributions(response)
            kept == CompleteAttributions(raw)
            sources == result.sources
        IN  /\ Len(sources) = Cardinality(kept)
            /\ \A k \in 1..Len(sources) :
                 /\ Present(sources[k], "uri")
                 /\ Present(sources[k], "title")
                 /\ sources[k] = [uri |-> raw[NthOf(kept, k)].web.uri,
                                  title |-> raw[NthOf(kept, k)].web.title]

C8_Witness ==
    /\ pc = "returned"
    /\ IsAnswer(response)
    /\ Len(RawAttributions(response)) = 3
    /\ CompleteAttributions(RawAttributions(response)) = {1, 3}
    /\ "web" \in DOMAIN RawAttributions(response)[2]
    /\ "uri" \in DOMAIN RawAttributions(response)[2].web
    /\ result.sources = <<[uri |-> "u2", title |-> "T1"], [uri |-> "u1", title |-> "T1"]>>

ErrorTexts ==
    { "bad key", "HTTP error! status: 400", "HTTP error! status: 404",
      "Invalid response structure from API.", "list index out of range",
      "Expecting value: line 1 column 1 (char 0)", "connection failed",
      "Max retries reached. Could not get a response from the API." }

IsErrorTurn(turn) ==
    /\ turn.role = "assistant"
    /\ \E text \in ErrorTexts :
           turn.content = "Sorry, I encountered an error: " \o text
    /\ turn.sources = <<>>

PairedHistory(msgs) ==
    /\ Len(msgs) >= 2
    /\ Len(msgs) % 2 = 0
    /\ msgs[1] = [role |-> "system", content |-> SYSTEM_PROMPT]
    /\ msgs[2] = [role |-> "assistant", content |-> Greeting]
    /\ \A i \in 3..Len(msgs) :
           msgs[i].role = IF i % 2 = 1 THEN "user" ELSE "assistant"

C9_HandlerStep ==
    /\ (pc = "idle" /\ pc' # "idle") =>
           \E prompt \in Prompts :
               messages' = messages \o <<[role |-> "user", content |-> prompt]>>
    /\ (pc # "idle" /\ pc' # "idle") => messages' = messages
    /\ (pc # "idle" /\ pc' = "idle") =>
           /\ Len(messages') = Len(messages) + 1
           /\ SubSeq(messages', 1, Len(messages)) = messages
           /\ messages'[Len(messages')].role = "assistant"
           /\ ~IsAnswer(response) => IsErrorTurn(messages'[Len(messages')])

(* C9: handling one user input makes the stored history grow by the user  *)
(* turn and then by exactly one assistant turn, however get_bot_response  *)
(* ended; when the call failed that turn is the prefixed error string     *)
(* with an empty source list.  Between handled inputs the history is      *)
(* system, assistant greeting, then (user, assistant) pairs.              *)
C9_OneAssistantTurnPerInput ==
    [](pc = "idle" => PairedHistory(messages)) /\ [][C9_HandlerStep]_vars

C9_Witness ==
    /\ pc = "idle"
    /\ Len(messages) = 6
    /\ PairedHistory(messages)
    /\ IsErrorTurn(messages[4])
    /\ messages[6].content = "t2"
    /\ Len(messages[6].sources) = 2

IsPrefix(s, t) == Len(s) <= Len(t) /\ SubSeq(t, 1, Len(s)) = s

(* C10: the conversation history is append-only: every step leaves the    *)
(* stored history a prefix of the new one, and no step of                 *)
(* get_bot_response changes the history passed to it.                     *)
C10_AppendOnly ==
    [][ /\ IsPrefix(messages, messages')
        /\ (pc # "idle" /\ pc' # "idle") =>
               (chat_history' = chat_history /\ messages' = messages) ]_vars

C10_Witness ==
    /\ pc = "idle"
    /\ Len(messages) = 6
    /\ sleeps # <<>>
    /\ result.kind = "raise"
    /\ messages[4].content = "t1"

\* a response whose status is 429 or 5xx
IsRetryableStatus(resp) ==
    /\ "status_code" \in DOMAIN resp
    /\ (resp.status_code = 429 \/ resp.status_code \in 500..599)

\* a response came back and its status is neither 2xx nor 429 nor 5xx
IsNonRetryableStatus(resp) ==
    /\ "status_code" \in DOMAIN resp
    /\ ~Is2xx(resp)
    /\ ~IsRetryableStatus(resp)

C11_RequestStep ==
    requests' = requests + 1 =>
        /\ requests' <= 5
        /\ requests >= 1 => (~Is2xx(response) /\ ~IsNonRetryableStatus(response))

(* C11: one invocation of get_bot_response issues at most 5 requests, and *)
(* issues no further request after a 2xx response or after a response    *)
(* with a non-retryable status.                                           *)
C11_AtMostFiveRequests == [][C11_RequestStep]_vars

(* C12: every invocation of get_bot_response ends, by returning or by     *)
(* raising, whatever the transport answers, provided each HTTP call and   *)
(* each sleep returns.                                                    *)
C12_Terminates == (pc = "loop") ~> (pc \in {"returned", "raised"})

C12_Witness ==
    /\ pc = "returned"
    /\ requests = 5
    /\ retries = 4
    /\ sleeps = <<1, 2, 4, 8>>

(* C13: 429/5xx answers and network failures share one backoff schedule:  *)
(* at the start of every attempt delay = 2^retries seconds, retries being *)
(* the number of retryable failures so far, so the sleeps of a call are a *)
(* prefix of 1, 2, 4, 8, 16; five failures by status give all five sleeps *)
(* before the max-retries error, a call that ends on a network failure    *)
(* has slept 1, 2, 4, 8 only.                                             *)
C13_SharedBackoff ==
    InCall =>
        /\ retries \in 0..5
        /\ delay = 2 ^ retries
        /\ sleeps = [i \in 1..retries |-> 2 ^ (i - 1)]
        /\ \A i \in 1..Len(sleeps) : sleeps[i] <= 16
        /\ pc = "loop" => retries = requests
        /\ (pc = "raised" /\ status_retries = requests) =>
               sleeps = <<1, 2, 4, 8, 16>>
        /\ (pc = "raised" /\ response \in NetworkFailures) =>
               (requests = 5 /\ sleeps = <<1, 2, 4, 8>>)

C13_Witness ==
    /\ pc = "raised"
    /\ result = MaxRetriesReached
    /\ status_retries = 3
    /\ retries = 5
    /\ sleeps = <<1, 2, 4, 8, 16>>

(* C14: every request of one invocation, the first attempt and every      *)
(* retry alike, carries the same payload: the contents built once before  *)
(* the loop and the tool declaration [{"google_search": {}}].             *)
C14_SamePayloadEveryRequest ==
    InCall =>
        /\ Len(posted) = requests
        /\ \A i \in 1..Len(posted) :
             /\ DOMAIN posted[i] = {"contents", "tools"}
             /\ posted[i].tools = <<[google_search |-> <<>>]>>
             /\ posted[i].contents = payload.contents
             /\ posted[i] = posted[1]

C14_Witness ==
    /\ pc = "returned"
    /\ Len(posted) = 5
    /\ posted[5] = posted[1]
    /\ posted[5].tools = <<[google_search |-> <<>>]>>
    /\ Len(posted[5].contents) = 5

\* the candidate of an answer carries no groundingAttributions: it has no
\* groundingMetadata, an empty one, or one without that field
HasNoAttributions(resp) ==
    LET candidate == resp.json.candidates[1]
    IN  \/ "groundingMetadata" \notin DOMAIN candidate
        \/ "groundingAttributions" \notin DOMAIN candidate.groundingMetadata

(* C15: a 2xx response with non-empty answer text and no grounding        *)
(* attributions makes the call return (text, []) on that attempt: it is   *)
(* neither treated as an error nor retried.                               *)
C15_MissingGroundingIsNoError ==
    (InCall /\ requests >= 1 /\ IsAnswer(response) /\ HasNoAttributions(response)) =>
        /\ pc = "returned"
        /\ result = [kind |-> "return",
                     text |-> AnswerTextOf(response.json),
                     sources |-> <<>>]

C15_Witness ==
    /\ pc = "returned"
    /\ IsAnswer(response)
    /\ "groundingMetadata" \in DOMAIN response.json.candidates[1]
    /\ response.json.candidates[1].groundingMetadata # <<>>
    /\ HasNoAttributions(response)
    /\ result = [kind |-> "return", text |-> "t1", sources |-> <<>>]
    /\ requests = 3

SystemPositions(contents) == {i \in 1..Len(contents) : contents[i].role = "system"}

(* C16: whatever the chat history, of any length and with any number of   *)
(* system-role turns at any positions, the request contents hold exactly  *)
(* one system-role turn, the first, carrying the persona text, and        *)
(* min(number of non-system turns, 10) + 1 turns, hence at most 11.       *)
C16_OneSystemTurn ==
    pc = "loop" =>
        LET contents == payload.contents
            n == Cardinality(NonSystemTurns(chat_history))
        IN  /\ SystemPositions(contents) = {1}
            /\ contents[1].parts = <<[text |-> SYSTEM_PROMPT]>>
            /\ Len(contents) = (IF n < 10 THEN n ELSE 10) + 1
            /\ Len(contents) <= 11

C16_Witness ==
    /\ pc = "loop"
    /\ Len(chat_history) = 12
    /\ SystemTurns(chat_history) = {1, 12}
    /\ Len(payload.contents) = 11
    /\ SystemPositions(payload.contents) = {1}

Last(seq) == seq[Len(seq)]

(* C17: whenever the handler handles a user input, every request sent to  *)
(* the provider ends with that input: the last element of the request     *)
(* contents is the user turn just appended to the history, its text       *)
(* unchanged, however long the history already is.                        *)
C17_RequestEndsWithInput ==
    InCall =>
        /\ Last(messages).role = "user"
        /\ Last(messages).content \in Prompts
        /\ Last(payload.contents) =
               [role |-> "user", parts |-> <<[text |-> Last(messages).content]>>]
        /\ \A i \in 1..Len(posted) :
               Last(posted[i].contents) =
                   [role |-> "user", parts |-> <<[text |-> Last(messages).content]>>]

C17_Witness ==
    /\ pc = "returned"
    /\ Len(messages) = 13
    /\ messages[13] = [role |-> "user", content |-> "p2"]
    /\ messages[11] = [role |-> "user", content |-> "p1"]
    /\ Len(posted) = 1
    /\ Len(posted[1].contents) = 11
    /\ Last(posted[1].contents) = [role |-> "user", parts |-> <<[text |-> "p2"]>>]

====
